---- MODULE Spec2Model ----
(***************************************************************************)
(* dvc/utils/serialize/_config.py: the INI-style configuration codec.      *)
(*                                                                         *)
(* A text is a sequence of characters, each character a one-element TLA+   *)
(* string.  A Python value is a tagged record (see the constructors        *)
(* below); a dict is an insertion-ordered sequence of <<key, value>> pairs *)
(* with distinct keys.                                                     *)
(***************************************************************************)
EXTENDS Integers, Sequences, FiniteSets, TLC

VARIABLES
    pc,        \* position of the running driver
    \* split_path(join_path(p))
    p,         \* the path handed to join_path (a sequence of keys)
    name,      \* the section name handed to split_path
    pos,       \* where re.finditer resumes its search
    offset,    \* split_path's local `offset`
    result,    \* split_path's local `result`
    \* config_literal_eval(config_literal_dump(v))
    value,     \* the scalar handed to config_literal_dump
    text,      \* the text config_literal_dump returned
    back,      \* what config_literal_eval made of that text
    \* parse_config
    sections,  \* parser.sections() with parser.items(section), in order
    idx,       \* number of sections the loop of parse_config has taken
    config,    \* parse_config's local `config`, or the exception raised
    out,       \* the sections _dump writes for the tree parse_config returned
    \* the tree of the caller
    tree,      \* the tree handed to _dump
    flat       \* flatten_sections(tree)

pathVars == <<p, name, pos, offset, result>>
valueVars == <<value, text, back>>
buildVars == <<sections, idx, config, out>>
treeVars == <<tree, flat>>
vars == <<pc, p, name, pos, offset, result, value, text, back, sections, idx, config, out, tree, flat>>

----------------------------------------------------------------------------
(* Bounds *)

MaxKeyLen == 2
MaxPathLen == 2
MaxNameLen == 4
MaxStrLen == 3
MaxInt == 2
MaxSections == 2
MaxEntries == 3

----------------------------------------------------------------------------
(* Generic helpers *)

RECURSIVE SeqsUpTo(_, _)
SeqsUpTo(S, n) ==
    IF n = 0 THEN {<<>>}
    ELSE LET shorter == SeqsUpTo(S, n - 1)
         IN  shorter \cup {Append(s, c) : s \in {t \in shorter : Len(t) = n - 1}, c \in S}

Has(s, c) == \E i \in 1..Len(s) : s[i] = c

RECURSIVE Flatten(_)
Flatten(ss) == IF ss = <<>> THEN <<>> ELSE Head(ss) \o Flatten(Tail(ss))

----------------------------------------------------------------------------
(* Characters.  The printable ASCII characters stand for themselves (the   *)
(* backquote excepted); any other code point n is the token "chr<n>".      *)

DOT == "."
SQ == "'"
DQ == "\""
BS == "\\"
SP == " "

\* code points 32..126 in order
AsciiPrintable ==
    << " ", "!", "\"", "#", "$", "%", "&", "'", "(", ")", "*", "+", ",", "-", ".", "/",
       "0", "1", "2", "3", "4", "5", "6", "7", "8", "9", ":", ";", "<", "=", ">", "?",
       "@", "A", "B", "C", "D", "E", "F", "G", "H", "I", "J", "K", "L", "M", "N", "O",
       "P", "Q", "R", "S", "T", "U", "V", "W", "X", "Y", "Z", "[", "\\", "]", "^", "_",
       "chr96", "a", "b", "c", "d", "e", "f", "g", "h", "i", "j", "k", "l", "m", "n", "o",
       "p", "q", "r", "s", "t", "u", "v", "w", "x", "y", "z", "{", "|", "}", "~" >>

PrintableSet == {AsciiPrintable[i] : i \in 1..95}

\* chr(n)
CodeChar(n) == IF n \in 32..126 THEN AsciiPrintable[n - 31] ELSE "chr" \o ToString(n)

\* the code points other than printable ASCII that the model can name
OtherCodes == (0..31) \cup {127, 233, 55357, 56832, 128512}

\* ord(c)
OrdChar(c) ==
    IF c \in PrintableSet
    THEN 31 + (CHOOSE i \in 1..95 : AsciiPrintable[i] = c)
    ELSE CHOOSE n \in OtherCodes : CodeChar(n) = c

EACUTE == CodeChar(233)       \* U+00E9, in the Basic Multilingual Plane
ASTRAL == CodeChar(128512)    \* U+1F600, outside it
HISUR == CodeChar(55357)      \* U+D83D, the high surrogate of U+1F600
LOSUR == CodeChar(56832)      \* U+DE00, its low surrogate

HexDigits == <<"0", "1", "2", "3", "4", "5", "6", "7", "8", "9", "a", "b", "c", "d", "e", "f">>
Hex(n, width) == [i \in 1..width |-> HexDigits[((n \div (16 ^ (width - i))) % 16) + 1]]

IsDigit(c) == c \in {"0", "1", "2", "3", "4", "5", "6", "7", "8", "9"}
IsOctal(c) == c \in {"0", "1", "2", "3", "4", "5", "6", "7"}
IsHex(c) == IsDigit(c) \/ c \in {"a", "b", "c", "d", "e", "f", "A", "B", "C", "D", "E", "F"}
DigitVal(c) == (CHOOSE i \in 1..10 : HexDigits[i] = c) - 1
HexVal(c) ==
    IF IsDigit(c) THEN DigitVal(c)
    ELSE IF c \in {"a", "A"} THEN 10
    ELSE IF c \in {"b", "B"} THEN 11
    ELSE IF c \in {"c", "C"} THEN 12
    ELSE IF c \in {"d", "D"} THEN 13
    ELSE IF c \in {"e", "E"} THEN 14
    ELSE 15
IsLetter(c) == c \in PrintableSet /\ (OrdChar(c) \in 65..90 \/ OrdChar(c) \in 97..122 \/ c = "_")

\* the value of a run of digits in the given base
RECURSIVE RunVal(_, _)
RunVal(ds, base) ==
    IF ds = <<>> THEN 0
    ELSE RunVal(SubSeq(ds, 1, Len(ds) - 1), base) * base + HexVal(ds[Len(ds)])

\* the character at index i, or "" past the end
Peek(s, i) == IF i >= 1 /\ i <= Len(s) THEN s[i] ELSE ""

KeyChars == {"a", DOT, SQ, DQ, BS}
PathKeyChars == {"a", DOT, SQ}

----------------------------------------------------------------------------
(* repr(x) for a str x: the delimiter is the single quote unless x holds a *)
(* single quote and no double quote; the backslash, the delimiter, the     *)
(* control characters and the lone surrogates are escaped.                 *)

ReprQuote(x) == IF Has(x, SQ) /\ ~Has(x, DQ) THEN DQ ELSE SQ

ReprChar(c, q) ==
    IF c = BS THEN <<BS, BS>>
    ELSE IF c = q THEN <<BS, c>>
    ELSE IF c \in PrintableSet THEN <<c>>
    ELSE LET n == OrdChar(c)
         IN  IF n = 9 THEN <<BS, "t">>
             ELSE IF n = 10 THEN <<BS, "n">>
             ELSE IF n = 13 THEN <<BS, "r">>
             ELSE IF n < 32 \/ n = 127 THEN <<BS, "x">> \o Hex(n, 2)
             ELSE IF n \in 55296..57343 THEN <<BS, "u">> \o Hex(n, 4)
             ELSE <<c>>

PyRepr(x) ==
    LET q == ReprQuote(x)
    IN  <<q>> \o Flatten([i \in 1..Len(x) |-> ReprChar(x[i], q)]) \o <<q>>

----------------------------------------------------------------------------
(* join_path *)

JoinPart(x) == IF Has(x, DOT) THEN PyRepr(x) ELSE x

RECURSIVE StrJoin(_, _)
StrJoin(sep, parts) ==
    IF parts = <<>> THEN <<>>
    ELSE IF Len(parts) = 1 THEN parts[1]
    ELSE parts[1] \o sep \o StrJoin(sep, Tail(parts))

join_path(path) == StrJoin(<<DOT>>, [i \in 1..Len(path) |-> JoinPart(path[i])])

----------------------------------------------------------------------------
(* The regular expression of split_path: a single-quoted run (group 1), a  *)
(* double-quoted run (group 2) or a run without dots (group 3), followed   *)
(* by a dot or the end of the text.                                        *)
(* Offsets are Python's: 0..Len(s), the character at offset i is s[i+1].   *)

\* the result of an operation that can fail
Val(v) == [st |-> "ok", v |-> v]

NoGroup == [m |-> FALSE]
Group(s) == [m |-> TRUE, s |-> s]
NoMatch == [ok |-> FALSE]

\* (?:[.]|$) at offset j: the offset after it, or -1
TailEnd(s, j) ==
    IF j < Len(s) /\ s[j + 1] = DOT THEN j + 1
    ELSE IF j = Len(s) THEN j
    ELSE -1

\* q([^q]*)q at offset i followed by the tail.  [^q]* is greedy and cannot
\* cross a q, so the closing quote is the next q after the opening one.
QuotedAt(s, i, q, g) ==
    IF i < Len(s) /\ s[i + 1] = q /\ \E j \in (i + 2)..Len(s) : s[j] = q
    THEN LET close == CHOOSE j \in (i + 2)..Len(s) :
                          s[j] = q /\ \A k \in (i + 2)..(j - 1) : s[k] # q
             e == TailEnd(s, close)
         IN  IF e = -1 THEN NoMatch
             ELSE [ok |-> TRUE, start |-> i, end |-> e,
                   groups |-> [k \in 1..3 |->
                       IF k = g THEN Group(SubSeq(s, i + 2, close - 1)) ELSE NoGroup]]
    ELSE NoMatch

\* ([^.]+) in place of ([^.]*): a variant whose unquoted run cannot be
\* empty, which finds no match where a key is empty
UnquotedNonEmptyAt(s, i) ==
    LET stop == CHOOSE j \in i..Len(s) :
                    (j = Len(s) \/ s[j + 1] = DOT) /\ \A k \in (i + 1)..j : s[k] # DOT
    IN  IF stop = i THEN NoMatch
        ELSE [ok |-> TRUE, start |-> i, end |-> TailEnd(s, stop),
              groups |-> <<NoGroup, NoGroup, Group(SubSeq(s, i + 1, stop))>>]

\* ([^.]*) at offset i followed by the tail.  The greedy run stops at the
\* next '.' or at the end, where the tail always matches.
UnquotedAt(s, i) ==
    LET stop == CHOOSE j \in i..Len(s) :
                    (j = Len(s) \/ s[j + 1] = DOT) /\ \A k \in (i + 1)..j : s[k] # DOT
    IN  [ok |-> TRUE, start |-> i, end |-> TailEnd(s, stop),
         groups |-> <<NoGroup, NoGroup, Group(SubSeq(s, i + 1, stop))>>]

\* the alternatives are tried in order at one offset
MatchAt(s, i) ==
    LET a1 == QuotedAt(s, i, SQ, 1)
        a2 == QuotedAt(s, i, DQ, 2)
    IN  IF a1.ok THEN a1 ELSE IF a2.ok THEN a2 ELSE UnquotedAt(s, i)

\* re.finditer: the leftmost match starting at or after `from`
NextMatch(s, from) ==
    IF \E i \in from..Len(s) : MatchAt(s, i).ok
    THEN MatchAt(s, CHOOSE i \in from..Len(s) :
                        MatchAt(s, i).ok /\ \A k \in from..(i - 1) : ~MatchAt(s, k).ok)
    ELSE NoMatch

\* next((g for g in match.groups() if g is not None))
FirstGroup(m) ==
    LET k == CHOOSE k \in 1..3 : m.groups[k].m /\ \A l \in 1..(k - 1) : ~m.groups[l].m
    IN  m.groups[k].s

\* where finditer resumes: after the match, one further after an empty one
Resume(m) == IF m.end = m.start THEN m.end + 1 ELSE m.end

\* split_path: the loop run to its end
RECURSIVE SplitLoop(_, _, _, _)
SplitLoop(s, from, off, acc) ==
    LET m == NextMatch(s, from)
    IN  IF ~m.ok THEN Val(acc)
        ELSE IF m.start # off THEN [st |-> "AssertionError"]
        ELSE IF m.end = Len(s) THEN Val(Append(acc, FirstGroup(m)))
        ELSE SplitLoop(s, Resume(m), m.end, Append(acc, FirstGroup(m)))

split_path(path) == SplitLoop(path, 0, 0, <<>>)

----------------------------------------------------------------------------
(* Python values.  A dict and a set keep their elements in insertion order. *)

PyInt(n) == [t |-> "int", n |-> n]
PyStr(s) == [t |-> "str", s |-> s]
PyBool(b) == [t |-> "bool", b |-> b]
PyNone == [t |-> "NoneType"]
PyList(xs) == [t |-> "list", xs |-> xs]
PyTuple(xs) == [t |-> "tuple", xs |-> xs]
PySet(xs) == [t |-> "set", xs |-> xs]
PyDict(kv) == [t |-> "dict", kv |-> kv]
\* an exception that config_literal_eval lets through
Raised(e) == [t |-> "raise", exc |-> e]

NumOf(v) == IF v.t = "bool" THEN (IF v.b THEN 1 ELSE 0) ELSE v.n

\* a == b
RECURSIVE PyEq(_, _)
PyEq(a, b) ==
    IF a.t \in {"int", "bool"} /\ b.t \in {"int", "bool"} THEN NumOf(a) = NumOf(b)
    ELSE IF a.t # b.t THEN FALSE
    ELSE IF a.t = "str" THEN a.s = b.s
    ELSE IF a.t \in {"list", "tuple"}
    THEN Len(a.xs) = Len(b.xs) /\ \A i \in 1..Len(a.xs) : PyEq(a.xs[i], b.xs[i])
    ELSE IF a.t = "set"
    THEN /\ \A i \in 1..Len(a.xs) : \E j \in 1..Len(b.xs) : PyEq(a.xs[i], b.xs[j])
         /\ \A j \in 1..Len(b.xs) : \E i \in 1..Len(a.xs) : PyEq(a.xs[i], b.xs[j])
    ELSE IF a.t = "dict"
    THEN /\ Len(a.kv) = Len(b.kv)
         /\ \A i \in 1..Len(a.kv) : \E j \in 1..Len(b.kv) :
                PyEq(a.kv[i][1], b.kv[j][1]) /\ PyEq(a.kv[i][2], b.kv[j][2])
    ELSE a = b

\* hash(v) succeeds
RECURSIVE Hashable(_)
Hashable(v) ==
    IF v.t \in {"list", "dict", "set"} THEN FALSE
    ELSE IF v.t = "tuple" THEN \A i \in 1..Len(v.xs) : Hashable(v.xs[i])
    ELSE TRUE

\* k in d, d[k], d[k] = v for the pairs kv of a dict
DictHas(kv, k) == \E i \in 1..Len(kv) : PyEq(kv[i][1], k)
DictIndex(kv, k) == CHOOSE i \in 1..Len(kv) : PyEq(kv[i][1], k)
DictGet(kv, k) == kv[DictIndex(kv, k)][2]
DictSet(kv, k, v) ==
    IF DictHas(kv, k)
    THEN [kv EXCEPT ![DictIndex(kv, k)] = <<kv[DictIndex(kv, k)][1], v>>]
    ELSE Append(kv, <<k, v>>)

\* dict(pairs)
RECURSIVE DictFromPairs(_, _)
DictFromPairs(pairs, acc) ==
    IF pairs = <<>> THEN acc
    ELSE DictFromPairs(Tail(pairs), DictSet(acc, Head(pairs)[1], Head(pairs)[2]))

\* s.add(v) for the elements xs of a set
SetAdd(xs, v) == IF \E i \in 1..Len(xs) : PyEq(xs[i], v) THEN xs ELSE Append(xs, v)

----------------------------------------------------------------------------
(* ast.parse(s, mode="eval") on the literal grammar: decimal integers,     *)
(* string literals (adjacent ones concatenated), names, unary + and -,     *)
(* lists, sets, dicts and the bare top-level tuple.  Anything else         *)
(* (binary operators, subscripts, calls, parentheses, floats, prefixed     *)
(* strings) is a SyntaxError or a ValueError of literal_eval; both are     *)
(* caught by config_literal_eval and are the result Fail here.             *)

Fail == [st |-> "fail"]
Ok(v, i) == [st |-> "ok", v |-> v, i |-> i]

RECURSIVE SkipWs(_, _)
SkipWs(s, i) == IF Peek(s, i) = SP THEN SkipWs(s, i + 1) ELSE i

DigitsEnd(s, i) ==
    CHOOSE j \in i..(Len(s) + 1) :
        (\A k \in i..(j - 1) : IsDigit(s[k])) /\ (j = Len(s) + 1 \/ ~IsDigit(s[j]))

IdentEnd(s, i) ==
    CHOOSE j \in i..(Len(s) + 1) :
        /\ \A k \in i..(j - 1) : IsLetter(s[k]) \/ IsDigit(s[k])
        /\ j = Len(s) + 1 \/ ~(IsLetter(s[j]) \/ IsDigit(s[j]))

\* up to three octal digits starting at i
OctalEnd(s, i) ==
    CHOOSE j \in i..(i + 3) :
        (\A k \in i..(j - 1) : IsOctal(Peek(s, k))) /\ (j = i + 3 \/ ~IsOctal(Peek(s, j)))

AllHex(s, i, n) == \A k \in i..(i + n - 1) : Peek(s, k) # "" /\ IsHex(Peek(s, k))

\* the escape sequence whose backslash is at i - 1: the characters it stands
\* for and the index after it
PyEscape(s, i) ==
    LET c == Peek(s, i)
    IN  IF c = "" THEN Fail
        ELSE IF c \in {BS, SQ, DQ} THEN Ok(<<c>>, i + 1)
        ELSE IF c = "a" THEN Ok(<<CodeChar(7)>>, i + 1)
        ELSE IF c = "b" THEN Ok(<<CodeChar(8)>>, i + 1)
        ELSE IF c = "t" THEN Ok(<<CodeChar(9)>>, i + 1)
        ELSE IF c = "n" THEN Ok(<<CodeChar(10)>>, i + 1)
        ELSE IF c = "v" THEN Ok(<<CodeChar(11)>>, i + 1)
        ELSE IF c = "f" THEN Ok(<<CodeChar(12)>>, i + 1)
        ELSE IF c = "r" THEN Ok(<<CodeChar(13)>>, i + 1)
        ELSE IF c = CodeChar(10) THEN Ok(<<>>, i + 1)
        ELSE IF IsOctal(c)
        THEN LET j == OctalEnd(s, i)
             IN  Ok(<<CodeChar(RunVal(SubSeq(s, i, j - 1), 8))>>, j)
        ELSE IF c = "x"
        THEN IF AllHex(s, i + 1, 2)
             THEN Ok(<<CodeChar(RunVal(SubSeq(s, i + 1, i + 2), 16))>>, i + 3)
             ELSE Fail
        ELSE IF c = "u"
        THEN IF AllHex(s, i + 1, 4)
             THEN Ok(<<CodeChar(RunVal(SubSeq(s, i + 1, i + 4), 16))>>, i + 5)
             ELSE Fail
        ELSE IF c \in {"U", "N"} THEN Fail
        ELSE Ok(<<BS, c>>, i + 1)

\* a failed parse stays failed, a parsed rest gets `first` in front of it
Cons(first, r) == IF r.st # "ok" THEN Fail ELSE Ok(first \o r.v, r.i)

\* the body of a string literal from index i to its closing delimiter
RECURSIVE PyStrBody(_, _, _, _)
PyStrBody(s, i, q, triple) ==
    LET Escaped(e) == IF e.st # "ok" THEN Fail ELSE Cons(e.v, PyStrBody(s, e.i, q, triple))
        Body(c) ==
            IF c = "" THEN Fail
            ELSE IF c = q /\ ~triple THEN Ok(<<>>, i + 1)
            ELSE IF c = q /\ Peek(s, i + 1) = q /\ Peek(s, i + 2) = q THEN Ok(<<>>, i + 3)
            ELSE IF c = CodeChar(10) /\ ~triple THEN Fail
            ELSE IF c = BS THEN Escaped(PyEscape(s, i + 1))
            ELSE Cons(<<c>>, PyStrBody(s, i + 1, q, triple))
    IN  Body(Peek(s, i))

\* one string literal starting at the quote at index i
PyStrLit(s, i) ==
    IF Peek(s, i + 1) = s[i] /\ Peek(s, i + 2) = s[i]
    THEN PyStrBody(s, i + 3, s[i], TRUE)
    ELSE PyStrBody(s, i + 1, s[i], FALSE)

\* one or more adjacent string literals
RECURSIVE PyStrings(_, _)
PyStrings(s, i) ==
    LET More(one, j) == IF Peek(s, j) \in {SQ, DQ} THEN Cons(one.v, PyStrings(s, j)) ELSE one
        After(one) == IF one.st # "ok" THEN Fail ELSE More(one, SkipWs(s, one.i))
    IN  After(PyStrLit(s, i))

Const(v) == [k |-> "const", v |-> v]

PyNumber(s, i) ==
    LET Digits(j, ds) ==
            IF Len(ds) > 1 /\ ds[1] = "0" /\ \E k \in 1..Len(ds) : ds[k] # "0"
            THEN Fail
            ELSE Ok(Const(PyInt(RunVal(ds, 10))), j)
        Run(j) == Digits(j, SubSeq(s, i, j - 1))
    IN  Run(DigitsEnd(s, i))

PyName(s, i) ==
    LET Ident(j, id) ==
            IF Peek(s, j) \in {SQ, DQ} THEN Fail
            ELSE IF id = <<"T", "r", "u", "e">> THEN Ok(Const(PyBool(TRUE)), j)
            ELSE IF id = <<"F", "a", "l", "s", "e">> THEN Ok(Const(PyBool(FALSE)), j)
            ELSE IF id = <<"N", "o", "n", "e">> THEN Ok(Const(PyNone), j)
            ELSE Ok([k |-> "name", id |-> id], j)
        Run(j) == Ident(j, SubSeq(s, i, j - 1))
    IN  Run(IdentEnd(s, i))

\* the syntax node made of a parsed part r
StrNode(r) == IF r.st # "ok" THEN Fail ELSE Ok(Const(PyStr(r.v)), r.i)
UnaryNode(op, r) == IF r.st # "ok" THEN Fail ELSE Ok([k |-> "unary", op |-> op, e |-> r.v], r.i)
ListNode(r) == IF r.st # "ok" THEN Fail ELSE Ok([k |-> "list", es |-> r.v], r.i)
SetNode(r) == IF r.st # "ok" THEN Fail ELSE Ok([k |-> "set", es |-> r.v], r.i)
TupleNode(r) == IF r.st # "ok" THEN Fail ELSE Ok([k |-> "tuple", es |-> r.v], r.i)
DictNode(r) ==
    IF r.st # "ok" THEN Fail
    ELSE Ok([k |-> "dict", ks |-> [n \in 1..Len(r.v) |-> r.v[n][1]],
                           vs |-> [n \in 1..Len(r.v) |-> r.v[n][2]]], r.i)

RECURSIVE PyAtom(_, _), PyItems(_, _, _), PyPairs(_, _), PyItemsFrom(_, _, _), PyPairsFrom(_, _)

\* one expression starting at or after index i
PyAtom(s, i0) ==
    LET \* after the opening brace and a first expression: a colon makes it a
        \* dict, anything else a set
        Braced(first) ==
            IF first.st # "ok" THEN Fail
            ELSE IF Peek(s, SkipWs(s, first.i)) = ":"
            THEN DictNode(PyPairsFrom(s, first))
            ELSE SetNode(PyItemsFrom(s, first, "}"))
        At(i, c) ==
            IF c = "" THEN Fail
            ELSE IF IsDigit(c) THEN PyNumber(s, i)
            ELSE IF c \in {SQ, DQ} THEN StrNode(PyStrings(s, i))
            ELSE IF IsLetter(c) THEN PyName(s, i)
            ELSE IF c \in {"-", "+"} THEN UnaryNode(c, PyAtom(s, i + 1))
            ELSE IF c = "[" THEN ListNode(PyItems(s, i + 1, "]"))
            ELSE IF c = "{"
            THEN IF Peek(s, SkipWs(s, i + 1)) = "}"
                 THEN Ok([k |-> "dict", ks |-> <<>>, vs |-> <<>>], SkipWs(s, i + 1) + 1)
                 ELSE Braced(PyAtom(s, i + 1))
            ELSE Fail
        Skipped(i) == At(i, Peek(s, i))
    IN  Skipped(SkipWs(s, i0))

\* expressions separated by commas up to the closing bracket; a trailing
\* comma is allowed after at least one expression
PyItems(s, i0, close) ==
    LET Skipped(i) ==
            IF Peek(s, i) = close THEN Ok(<<>>, i + 1)
            ELSE PyItemsFrom(s, PyAtom(s, i), close)
    IN  Skipped(SkipWs(s, i0))

\* the same after the first expression e
PyItemsFrom(s, e, close) ==
    LET Sep(j) ==
            IF Peek(s, j) = close THEN Ok(<<e.v>>, j + 1)
            ELSE IF Peek(s, j) = "," THEN Cons(<<e.v>>, PyItems(s, j + 1, close))
            ELSE Fail
    IN  IF e.st # "ok" THEN Fail ELSE Sep(SkipWs(s, e.i))

\* key: value pairs separated by commas up to the closing brace
PyPairs(s, i0) ==
    LET Skipped(i) ==
            IF Peek(s, i) = "}" THEN Ok(<<>>, i + 1)
            ELSE PyPairsFrom(s, PyAtom(s, i))
    IN  Skipped(SkipWs(s, i0))

\* the same after the first key
PyPairsFrom(s, key) ==
    LET Sep(val, j) ==
            IF Peek(s, j) = "}" THEN Ok(<<<<key.v, val.v>>>>, j + 1)
            ELSE IF Peek(s, j) = "," THEN Cons(<<<<key.v, val.v>>>>, PyPairs(s, j + 1))
            ELSE Fail
        AfterVal(val) == IF val.st # "ok" THEN Fail ELSE Sep(val, SkipWs(s, val.i))
        Colon(j) == IF Peek(s, j) # ":" THEN Fail ELSE AfterVal(PyAtom(s, j + 1))
    IN  IF key.st # "ok" THEN Fail ELSE Colon(SkipWs(s, key.i))

\* the bare tuple after a first expression and a comma
RECURSIVE PyTupleRest(_, _)
PyTupleRest(s, i0) ==
    LET Sep(e, j) ==
            IF j > Len(s) THEN Ok(<<e.v>>, j)
            ELSE IF Peek(s, j) = "," THEN Cons(<<e.v>>, PyTupleRest(s, j + 1))
            ELSE Fail
        After(e) == IF e.st # "ok" THEN Fail ELSE Sep(e, SkipWs(s, e.i))
        Skipped(i) == IF i > Len(s) THEN Ok(<<>>, i) ELSE After(PyAtom(s, i))
    IN  Skipped(SkipWs(s, i0))

\* compile() rejects a source text that holds a NUL or a lone surrogate
\* (both a ValueError)
Compilable(s) ==
    \A i \in 1..Len(s) :
        s[i] \in PrintableSet \/ (OrdChar(s[i]) # 0 /\ OrdChar(s[i]) \notin 55296..57343)

\* the whole text as one expression
PyParse(s) ==
    LET Sep(e, j) ==
            IF j > Len(s) THEN Ok(e.v, j)
            ELSE IF Peek(s, j) = "," THEN TupleNode(Cons(<<e.v>>, PyTupleRest(s, j + 1)))
            ELSE Fail
        After(e) == IF e.st # "ok" THEN Fail ELSE Sep(e, SkipWs(s, e.i))
    IN  IF ~Compilable(s) THEN Fail ELSE After(PyAtom(s, 1))

----------------------------------------------------------------------------
(* ast.literal_eval: _convert walks the parsed expression left to right;   *)
(* a malformed node is a ValueError (Fail), an unhashable set element or   *)
(* dict key a TypeError.                                                   *)

TypeErr == [st |-> "TypeError"]

\* the converted elements r wrapped by the constructor of the container
Wrapped(kind, r) ==
    IF r.st # "ok" THEN r
    ELSE IF kind = "list" THEN Val(PyList(r.v))
    ELSE IF kind = "tuple" THEN Val(PyTuple(r.v))
    ELSE IF kind = "set" THEN Val(PySet(r.v))
    ELSE Val(PyDict(r.v))

RECURSIVE Convert(_), ConvertSeq(_, _), ConvertSet(_, _), ConvertDict(_, _, _)

Convert(n) ==
    IF n.k = "const" THEN Val(n.v)
    ELSE IF n.k = "unary"
    THEN IF n.e.k = "const" /\ n.e.v.t = "int"
         THEN Val(PyInt(IF n.op = "-" THEN 0 - n.e.v.n ELSE n.e.v.n))
         ELSE Fail
    ELSE IF n.k \in {"list", "tuple"} THEN Wrapped(n.k, ConvertSeq(n.es, <<>>))
    ELSE IF n.k = "set" THEN Wrapped(n.k, ConvertSet(n.es, <<>>))
    ELSE IF n.k = "dict" THEN Wrapped(n.k, ConvertDict(n.ks, n.vs, <<>>))
    ELSE Fail

ConvertSeq(es, acc) ==
    LET Next(r) == IF r.st # "ok" THEN r ELSE ConvertSeq(Tail(es), Append(acc, r.v))
    IN  IF es = <<>> THEN Val(acc) ELSE Next(Convert(Head(es)))

ConvertSet(es, acc) ==
    LET Next(r) ==
            IF r.st # "ok" THEN r
            ELSE IF ~Hashable(r.v) THEN TypeErr
            ELSE ConvertSet(Tail(es), SetAdd(acc, r.v))
    IN  IF es = <<>> THEN Val(acc) ELSE Next(Convert(Head(es)))

ConvertDict(ks, vs, acc) ==
    LET NextVal(key, val) ==
            IF val.st # "ok" THEN val
            ELSE IF ~Hashable(key.v) THEN TypeErr
            ELSE ConvertDict(Tail(ks), Tail(vs), DictSet(acc, key.v, val.v))
        NextKey(key) == IF key.st # "ok" THEN key ELSE NextVal(key, Convert(Head(vs)))
    IN  IF ks = <<>> THEN Val(acc) ELSE NextKey(Convert(Head(ks)))

literal_eval(s) ==
    LET Parsed(r) == IF r.st # "ok" THEN Fail ELSE Convert(r.v)
    IN  Parsed(PyParse(s))

----------------------------------------------------------------------------
(* json.loads on strings, integers, true, false, null, arrays and objects  *)
(* (no fractions, exponents, NaN or Infinity).                             *)

IsSurrogateHi(n) == n \in 55296..56319
IsSurrogateLo(n) == n \in 56320..57343

\* the character a \u escape at index i (its first hex digit) stands for and
\* the index after it: a high surrogate followed by an escaped low one is
\* one character
JsonUnicode(s, i) ==
    LET hi == RunVal(SubSeq(s, i, i + 3), 16)
        lo == RunVal(SubSeq(s, i + 6, i + 9), 16)
        paired ==
            /\ IsSurrogateHi(hi)
            /\ Peek(s, i + 4) = BS /\ Peek(s, i + 5) = "u"
            /\ AllHex(s, i + 6, 4)
            /\ IsSurrogateLo(lo)
    IN  IF paired
        THEN [ch |-> CodeChar(65536 + (hi - 55296) * 1024 + (lo - 56320)), i |-> i + 10]
        ELSE [ch |-> CodeChar(hi), i |-> i + 4]

\* the character a one-letter escape stands for, "" for any other letter
JsonSimpleEscape(e) ==
    IF e \in {DQ, BS, "/"} THEN e
    ELSE IF e = "b" THEN CodeChar(8)
    ELSE IF e = "f" THEN CodeChar(12)
    ELSE IF e = "n" THEN CodeChar(10)
    ELSE IF e = "r" THEN CodeChar(13)
    ELSE IF e = "t" THEN CodeChar(9)
    ELSE ""

\* the body of a JSON string from index i to its closing quote
RECURSIVE JsonStrBody(_, _)
JsonStrBody(s, i) ==
    LET AfterUnicode(u) == Cons(<<u.ch>>, JsonStrBody(s, u.i))
        Body(c, e) ==
            IF c = "" THEN Fail
            ELSE IF c = DQ THEN Ok(<<>>, i + 1)
            ELSE IF c \notin PrintableSet /\ OrdChar(c) < 32 THEN Fail
            ELSE IF c # BS THEN Cons(<<c>>, JsonStrBody(s, i + 1))
            ELSE IF e = "u"
            THEN IF ~AllHex(s, i + 2, 4) THEN Fail ELSE AfterUnicode(JsonUnicode(s, i + 2))
            ELSE IF JsonSimpleEscape(e) = "" THEN Fail
            ELSE Cons(<<JsonSimpleEscape(e)>>, JsonStrBody(s, i + 2))
    IN  Body(Peek(s, i), Peek(s, i + 1))

\* -?(0|[1-9][0-9]*)
JsonNumber(s, i) ==
    LET neg == Peek(s, i) = "-"
        d == IF neg THEN i + 1 ELSE i
        j == IF Peek(s, d) = "0" THEN d + 1 ELSE DigitsEnd(s, d)
    IN  IF j = d THEN Fail
        ELSE Ok(PyInt(IF neg THEN 0 - RunVal(SubSeq(s, d, j - 1), 10)
                             ELSE RunVal(SubSeq(s, d, j - 1), 10)), j)

StartsWith(s, i, w) == \A k \in 1..Len(w) : Peek(s, i + k - 1) = w[k]

\* a parsed text r made into the value F builds of it
JsonStrValue(r) == IF r.st # "ok" THEN Fail ELSE Ok(PyStr(r.v), r.i)
JsonListValue(r) == IF r.st # "ok" THEN Fail ELSE Ok(PyList(r.v), r.i)
JsonDictValue(r) == IF r.st # "ok" THEN Fail ELSE Ok(PyDict(DictFromPairs(r.v, <<>>)), r.i)

RECURSIVE JsonValue(_, _), JsonItems(_, _), JsonPairs(_, _)

JsonValue(s, i0) ==
    LET At(i, c) ==
            IF c = "" THEN Fail
            ELSE IF c = DQ THEN JsonStrValue(JsonStrBody(s, i + 1))
            ELSE IF c = "-" \/ IsDigit(c) THEN JsonNumber(s, i)
            ELSE IF StartsWith(s, i, <<"t", "r", "u", "e">>) THEN Ok(PyBool(TRUE), i + 4)
            ELSE IF StartsWith(s, i, <<"f", "a", "l", "s", "e">>) THEN Ok(PyBool(FALSE), i + 5)
            ELSE IF StartsWith(s, i, <<"n", "u", "l", "l">>) THEN Ok(PyNone, i + 4)
            ELSE IF c = "["
            THEN IF Peek(s, SkipWs(s, i + 1)) = "]" THEN Ok(PyList(<<>>), SkipWs(s, i + 1) + 1)
                 ELSE JsonListValue(JsonItems(s, i + 1))
            ELSE IF c = "{"
            THEN IF Peek(s, SkipWs(s, i + 1)) = "}" THEN Ok(PyDict(<<>>), SkipWs(s, i + 1) + 1)
                 ELSE JsonDictValue(JsonPairs(s, i + 1))
            ELSE Fail
        Skipped(i) == At(i, Peek(s, i))
    IN  Skipped(SkipWs(s, i0))

\* the elements of an array up to its closing bracket
JsonItems(s, i) ==
    LET Sep(e, j) ==
            IF Peek(s, j) = "]" THEN Ok(<<e.v>>, j + 1)
            ELSE IF Peek(s, j) = "," THEN Cons(<<e.v>>, JsonItems(s, j + 1))
            ELSE Fail
        After(e) == IF e.st # "ok" THEN Fail ELSE Sep(e, SkipWs(s, e.i))
    IN  After(JsonValue(s, i))

\* the members of an object up to its closing brace
JsonPairs(s, i0) ==
    LET Sep(key, val, j) ==
            IF Peek(s, j) = "}" THEN Ok(<<<<PyStr(key.v), val.v>>>>, j + 1)
            ELSE IF Peek(s, j) = "," THEN Cons(<<<<PyStr(key.v), val.v>>>>, JsonPairs(s, j + 1))
            ELSE Fail
        AfterVal(key, val) == IF val.st # "ok" THEN Fail ELSE Sep(key, val, SkipWs(s, val.i))
        Colon(key, j) == IF Peek(s, j) # ":" THEN Fail ELSE AfterVal(key, JsonValue(s, j + 1))
        AfterKey(key) == IF key.st # "ok" THEN Fail ELSE Colon(key, SkipWs(s, key.i))
        Skipped(i) == IF Peek(s, i) # DQ THEN Fail ELSE AfterKey(JsonStrBody(s, i + 1))
    IN  Skipped(SkipWs(s, i0))

json_loads(s) ==
    LET Whole(r) ==
            IF r.st # "ok" THEN Fail
            ELSE IF SkipWs(s, r.i) > Len(s) THEN Val(r.v)
            ELSE Fail
    IN  Whole(JsonValue(s, 1))

----------------------------------------------------------------------------
(* json.dumps with its defaults (ensure_ascii, separators ", " and ": ")   *)

JsonEscapeChar(c) ==
    IF c = DQ THEN <<BS, DQ>>
    ELSE IF c = BS THEN <<BS, BS>>
    ELSE IF c \in PrintableSet THEN <<c>>
    ELSE LET n == OrdChar(c)
         IN  IF n = 8 THEN <<BS, "b">>
             ELSE IF n = 9 THEN <<BS, "t">>
             ELSE IF n = 10 THEN <<BS, "n">>
             ELSE IF n = 12 THEN <<BS, "f">>
             ELSE IF n = 13 THEN <<BS, "r">>
             ELSE IF n < 65536 THEN <<BS, "u">> \o Hex(n, 4)
             ELSE <<BS, "u">> \o Hex(55296 + ((n - 65536) \div 1024), 4)
                  \o <<BS, "u">> \o Hex(56320 + ((n - 65536) % 1024), 4)

JsonDumpsStr(s) == <<DQ>> \o Flatten([i \in 1..Len(s) |-> JsonEscapeChar(s[i])]) \o <<DQ>>

RECURSIVE NatChars(_)
NatChars(n) == IF n < 10 THEN <<HexDigits[n + 1]>> ELSE NatChars(n \div 10) \o <<HexDigits[(n % 10) + 1]>>
IntChars(n) == IF n < 0 THEN <<"-">> \o NatChars(0 - n) ELSE NatChars(n)

NotSerializable == <<"TypeError">>

\* the texts of two parts joined by sep, NotSerializable if either is
JoinTexts(h, sep, r) ==
    IF h = NotSerializable \/ r = NotSerializable THEN NotSerializable ELSE h \o sep \o r

Bracketed(open, r, close) == IF r = NotSerializable THEN r ELSE open \o r \o close

\* the result is a text, or NotSerializable (json.dumps raised TypeError: a
\* set, or a key that is a tuple)
RECURSIVE JsonDumps(_), JsonDumpsSeq(_), JsonDumpsPairs(_)
JsonDumps(v) ==
    IF v.t = "str" THEN JsonDumpsStr(v.s)
    ELSE IF v.t = "int" THEN IntChars(v.n)
    ELSE IF v.t = "bool" THEN (IF v.b THEN <<"t", "r", "u", "e">> ELSE <<"f", "a", "l", "s", "e">>)
    ELSE IF v.t = "NoneType" THEN <<"n", "u", "l", "l">>
    ELSE IF v.t \in {"list", "tuple"} THEN Bracketed(<<"[">>, JsonDumpsSeq(v.xs), <<"]">>)
    ELSE IF v.t = "dict" THEN Bracketed(<<"{">>, JsonDumpsPairs(v.kv), <<"}">>)
    ELSE NotSerializable

JsonDumpsSeq(xs) ==
    IF xs = <<>> THEN <<>>
    ELSE IF Len(xs) = 1 THEN JsonDumps(Head(xs))
    ELSE JoinTexts(JsonDumps(Head(xs)), <<",", SP>>, JsonDumpsSeq(Tail(xs)))

\* the key of a dict as json.dumps writes it
JsonDumpsKey(key) ==
    IF key.t = "str" THEN JsonDumpsStr(key.s)
    ELSE IF key.t = "int" THEN <<DQ>> \o IntChars(key.n) \o <<DQ>>
    ELSE IF key.t = "bool" THEN (IF key.b THEN <<DQ, "t", "r", "u", "e", DQ>>
                                          ELSE <<DQ, "f", "a", "l", "s", "e", DQ>>)
    ELSE IF key.t = "NoneType" THEN <<DQ, "n", "u", "l", "l", DQ>>
    ELSE NotSerializable

JsonDumpsPairs(kv) ==
    LET One(e) == JoinTexts(JsonDumpsKey(e[1]), <<":", SP>>, JsonDumps(e[2]))
    IN  IF kv = <<>> THEN <<>>
        ELSE IF Len(kv) = 1 THEN One(Head(kv))
        ELSE JoinTexts(One(Head(kv)), <<",", SP>>, JsonDumpsPairs(Tail(kv)))

----------------------------------------------------------------------------
(* config_literal_eval and config_literal_dump *)

config_literal_eval(s) ==
    LET Json(js) == IF js.st = "ok" THEN js.v ELSE PyStr(s)
        Python(py) ==
            IF py.st = "ok" THEN py.v
            ELSE IF py.st = "TypeError" THEN Raised("TypeError")
            ELSE Json(json_loads(s))
    IN  Python(literal_eval(s))

\* a variant that writes every str as it is, without the check of line 45
RawDump(v) == IF v.t = "str" THEN v.s ELSE JsonDumps(v)

\* the text written for v, or NotSerializable when line 45 or json.dumps
\* raised TypeError
config_literal_dump(v) ==
    LET Same(e) ==
            IF e.t = "raise" THEN NotSerializable
            ELSE IF PyEq(e, v) THEN v.s
            ELSE JsonDumps(v)
    IN  IF v.t = "str" THEN Same(config_literal_eval(v.s)) ELSE JsonDumps(v)

----------------------------------------------------------------------------
(* flatten_sections.  A configuration tree is a dict whose keys are str;   *)
(* a value that is a dict is a nested tree, any other value a scalar.      *)
(* res maps a section name to the dict of its entries.                     *)

\* a variant of update that keeps the value of a key d already has, as a
\* loop of setdefault would
RECURSIVE DictUpdateKeep(_, _)
DictUpdateKeep(kv, other) ==
    IF other = <<>> THEN kv
    ELSE DictUpdateKeep(IF DictHas(kv, Head(other)[1]) THEN kv
                        ELSE Append(kv, Head(other)),
                        Tail(other))

\* d.update(other) on the pairs of two dicts
RECURSIVE DictUpdate(_, _)
DictUpdate(kv, other) ==
    IF other = <<>> THEN kv
    ELSE DictUpdate(DictSet(kv, Head(other)[1], Head(other)[2]), Tail(other))

\* d.setdefault(k, v)
SetDefault(kv, k, v) == IF DictHas(kv, k) THEN kv ELSE Append(kv, <<k, v>>)

\* d.pop(k, None)
DictPop(kv, k) == SelectSeq(kv, LAMBDA e : ~PyEq(e[1], k))

RECURSIVE rec(_, _, _), RecItems(_, _, _, _)

\* the for loop of rec over the items of d: the nested trees are flattened
\* on the way, the scalars are collected in `section`
RecItems(items, path, res, section) ==
    LET Item(k, v) ==
            IF v.t = "dict"
            THEN RecItems(Tail(items), path, rec(v, Append(path, k.s), res), section)
            ELSE RecItems(Tail(items), path, res, DictSet(section, k, v))
    IN  IF items = <<>> THEN [res |-> res, section |-> section]
        ELSE Item(Head(items)[1], Head(items)[2])

rec(d, path, res) ==
    LET \* line 62
        Update(nm, done) ==
            DictSet(done.res, nm, PyDict(DictUpdate(DictGet(done.res, nm).kv, done.section)))
        \* lines 55-61
        Named(nm) == Update(nm, RecItems(d.kv, path, SetDefault(res, nm, PyDict(<<>>)), <<>>))
    IN  Named(PyStr(join_path(path)))

flatten_sections(root) == DictPop(rec(root, <<>>, <<>>), PyStr(<<>>))

----------------------------------------------------------------------------
(* _dump: the sections handed to the ConfigParser, in order, each with its *)
(* entries encoded by config_literal_dump.  A section is                   *)
(* [name |-> text, items |-> sequence of <<key text, value text>>].        *)

DumpItems(kv) == [i \in 1..Len(kv) |-> <<kv[i][1].s, config_literal_dump(kv[i][2])>>]

_dump(data) ==
    LET Sections(prepared) ==
            [i \in 1..Len(prepared) |->
                [name |-> prepared[i][1].s, items |-> DumpItems(prepared[i][2].kv)]]
    IN  Sections(flatten_sections(data))

----------------------------------------------------------------------------
(* parse_config, the body of its loop over parser.sections()               *)

\* {k: config_literal_eval(v) for k, v in parser.items(section)}
EvalItems(items) == [i \in 1..Len(items) |-> <<PyStr(items[i][1]), config_literal_eval(items[i][2])>>]

AnyRaised(kv) == \E i \in 1..Len(kv) : kv[i][2].t = "raise"

\* s.update(keys) for the elements xs of a set
RECURSIVE SetAddAll(_, _)
SetAddAll(xs, vs) == IF vs = <<>> THEN xs ELSE SetAddAll(SetAdd(xs, Head(vs)), Tail(vs))

\* current.update(entries) where current is the value `node`: a dict and a
\* set have an update method, the other values raise AttributeError before
\* the entries are evaluated
UpdateNode(node, items) ==
    LET Update(entries) ==
            IF AnyRaised(entries) THEN Raised("TypeError")
            ELSE IF node.t = "dict" THEN PyDict(DictUpdate(node.kv, entries))
            ELSE PySet(SetAddAll(node.xs, [i \in 1..Len(entries) |-> entries[i][1]]))
    IN  IF node.t \in {"dict", "set"} THEN Update(EvalItems(items))
        ELSE Raised("AttributeError")

\* a variant of the walk that replaces a value that is not a dict by a new
\* dict and goes on, where the code raises
RECURSIVE WalkUpdateVivify(_, _, _)
WalkUpdateVivify(node, parts, items) ==
    LET Put(d, key, r) == IF r.t = "raise" THEN r ELSE PyDict(DictSet(d.kv, key, r))
        Step(d, key) ==
            Put(d, key, WalkUpdateVivify(IF DictHas(d.kv, key) THEN DictGet(d.kv, key)
                                                               ELSE PyDict(<<>>),
                                         Tail(parts), items))
        On(d) == IF parts = <<>> THEN UpdateNode(d, items) ELSE Step(d, PyStr(Head(parts)))
    IN  On(IF node.t = "dict" THEN node ELSE PyDict(<<>>))

\* the walk from `node` along `parts`, then the update: the value that
\* replaces `node`, or the exception raised.  On a value that is not a dict
\* the membership test, the item assignment or the subscript raises
\* TypeError whatever the part is.
RECURSIVE WalkUpdate(_, _, _)
WalkUpdate(node, parts, items) ==
    LET Put(key, r) == IF r.t = "raise" THEN r ELSE PyDict(DictSet(node.kv, key, r))
        Step(key) ==
            Put(key, WalkUpdate(IF DictHas(node.kv, key) THEN DictGet(node.kv, key)
                                                         ELSE PyDict(<<>>),
                                Tail(parts), items))
    IN  IF parts = <<>> THEN UpdateNode(node, items)
        ELSE IF node.t # "dict" THEN Raised("TypeError")
        ELSE Step(PyStr(Head(parts)))

\* one iteration of the loop of parse_config, `current` being config
ParseSection(current, section) ==
    LET Walk(parts) ==
            IF parts.st # "ok" THEN Raised("AssertionError")
            ELSE WalkUpdate(current, parts.v, section.items)
    IN  Walk(split_path(section.name))

\* parse_config on the sections the ConfigParser read
RECURSIVE ParseSections(_, _)
ParseSections(current, rest) ==
    IF rest = <<>> \/ current.t = "raise" THEN current
    ELSE ParseSections(ParseSection(current, Head(rest)), Tail(rest))

parse_config(parser) == ParseSections(PyDict(<<>>), parser)

----------------------------------------------------------------------------
(* Idle values of the variables a driver does not use *)

PathIdle == p = <<>> /\ name = <<>> /\ pos = 0 /\ offset = 0 /\ result = <<>>
ValueIdle == value = PyNone /\ text = <<>> /\ back = PyNone
BuildIdle == sections = <<>> /\ idx = 0 /\ config = PyDict(<<>>) /\ out = <<>>
TreeIdle == tree = PyDict(<<>>) /\ flat = <<>>

----------------------------------------------------------------------------
(* split_path, one loop iteration per step *)

Keys == SeqsUpTo(PathKeyChars, MaxKeyLen)
Paths == SeqsUpTo(Keys, MaxPathLen)
Names == SeqsUpTo(KeyChars, MaxNameLen)

InitPath ==
    /\ pos = 0
    /\ offset = 0
    /\ result = <<>>
    /\ \/ pc = "join" /\ p \in Paths /\ name = <<>>
       \/ pc = "split" /\ p = <<>> /\ name \in Names
    /\ ValueIdle /\ BuildIdle /\ TreeIdle

\* name = join_path(p), then split_path(name) is entered
Join ==
    /\ pc = "join"
    /\ name' = join_path(p)
    /\ pc' = "joined"
    /\ UNCHANGED <<p, pos, offset, result, valueVars, buildVars, treeVars>>

\* split_path lines 23-24
SplitEnter ==
    /\ pc \in {"joined", "split"}
    /\ offset' = 0
    /\ result' = <<>>
    /\ pos' = 0
    /\ pc' = IF pc = "joined" THEN "loop_rt" ELSE "loop"
    /\ UNCHANGED <<p, name, valueVars, buildVars, treeVars>>

\* split_path lines 25-30: one iteration of the for loop
SplitStep ==
    /\ pc \in {"loop", "loop_rt"}
    /\ LET m == NextMatch(name, pos)
           done == IF pc = "loop" THEN "return" ELSE "return_rt"
       IN  IF ~m.ok
           THEN /\ pc' = done
                /\ UNCHANGED <<pos, offset, result>>
           ELSE IF m.start # offset
           THEN /\ pc' = "AssertionError"
                /\ UNCHANGED <<pos, offset, result>>
           ELSE /\ offset' = m.end
                /\ result' = Append(result, FirstGroup(m))
                /\ pos' = Resume(m)
                /\ pc' = IF m.end = Len(name) THEN done ELSE pc
    /\ UNCHANGED <<p, name, valueVars, buildVars, treeVars>>

NextPath == Join \/ SplitEnter \/ SplitStep

SpecPath == InitPath /\ [][NextPath]_vars

----------------------------------------------------------------------------
(* config_literal_eval(config_literal_dump(value)): the scalar a caller    *)
(* stores, the text written for it, the scalar read back.                  *)

ValChars == {"1", "z", SQ, DQ, BS, ASTRAL, "[", "]"}

\* texts whose decoding is a boolean, null, a number, a quoted literal, a
\* list, or raises
Words ==
    { <<"t", "r", "u", "e">>, <<"n", "u", "l", "l">>, <<"T", "r", "u", "e">>,
      <<"N", "o", "n", "e">>, <<"4", "2">>, <<"-", "1">>, <<"[", "1", "]">>,
      <<DQ, EACUTE, DQ>>, <<"{", "[", "]", ":", "1", "}">> }

Scalars ==
    {PyInt(n) : n \in (0 - MaxInt)..MaxInt}
        \cup {PyBool(TRUE), PyBool(FALSE), PyNone}
        \cup {PyStr(s) : s \in SeqsUpTo(ValChars, MaxStrLen) \cup Words}

InitValue ==
    /\ pc = "dump"
    /\ value \in Scalars
    /\ text = <<>>
    /\ back = PyNone
    /\ PathIdle /\ BuildIdle /\ TreeIdle

\* text = config_literal_dump(value)
DumpValue ==
    /\ pc = "dump"
    /\ LET Written(d) ==
               IF d = NotSerializable
               THEN pc' = "raised" /\ text' = text
               ELSE pc' = "eval" /\ text' = d
       IN  Written(config_literal_dump(value))
    /\ UNCHANGED <<value, back, pathVars, buildVars, treeVars>>

\* back = config_literal_eval(text)
EvalValue ==
    /\ pc = "eval"
    /\ back' = config_literal_eval(text)
    /\ pc' = "done"
    /\ UNCHANGED <<value, text, pathVars, buildVars, treeVars>>

NextValue == DumpValue \/ EvalValue

SpecValue == InitValue /\ [][NextValue]_vars

----------------------------------------------------------------------------
(* parse_config: the ConfigParser reads the sections of the text, the loop *)
(* of lines 81-92 takes them one per step, the tree is returned and        *)
(* written again by _dump.                                                 *)

SectionNames ==
    { <<"a">>, <<"a", DOT>>, <<"a", DOT, "k">>, <<"a", DOT, "k", DOT, "j">> }

\* value texts: a number, a boolean, null, a raw string, a list, a mapping
RawValues ==
    { <<"1">>, <<"t", "r", "u", "e">>, <<"n", "u", "l", "l">>, <<"z">>,
      <<"[", "1", "]">>, <<"{", SQ, "j", SQ, ":", SP, "1", "}">> }

\* the entries of one section: none, k alone, j alone, or k followed by j
ItemLists ==
    {<<>>}
        \cup { << << <<"k">>, r >> >> : r \in RawValues }
        \cup { << << <<"j">>, <<"1">> >> >> }
        \cup { << << <<"k">>, r >>, << <<"j">>, <<"1">> >> >> : r \in { <<"1">>, <<"z">> } }

\* [x.y] with z = 1 and w = "1"
ScenarioDoc ==
    << [name |-> <<"x", DOT, "y">>,
        items |-> << << <<"z">>, <<"1">> >>, << <<"w">>, <<DQ, "1", DQ>> >> >>] >>

InitBuild ==
    /\ \/ pc = "read" /\ sections = <<>>
       \/ pc = "parse" /\ sections = ScenarioDoc
    /\ idx = 0
    /\ config = PyDict(<<>>)
    /\ out = <<>>
    /\ PathIdle /\ ValueIdle /\ TreeIdle

\* parser.read_string(text), line 79: one more section of the text; a
\* strict parser refuses a section name it has already read
ReadSection ==
    /\ pc = "read"
    /\ Len(sections) < MaxSections
    /\ \E n \in SectionNames, items \in ItemLists :
           /\ \A i \in 1..Len(sections) : sections[i].name # n
           /\ sections' = Append(sections, [name |-> n, items |-> items])
    /\ UNCHANGED <<pc, idx, config, out, pathVars, valueVars, treeVars>>

\* line 80
StartParse ==
    /\ pc = "read"
    /\ config' = PyDict(<<>>)
    /\ idx' = 0
    /\ pc' = "parse"
    /\ UNCHANGED <<sections, out, pathVars, valueVars, treeVars>>

\* lines 81-92: one iteration of the loop over parser.sections()
ParseStep ==
    /\ pc = "parse"
    /\ idx < Len(sections)
    /\ config' = ParseSection(config, sections[idx + 1])
    /\ pc' = IF config'.t = "raise" THEN "raised" ELSE "parse"
    /\ idx' = idx + 1
    /\ UNCHANGED <<sections, out, pathVars, valueVars, treeVars>>

\* line 94
ParseReturn ==
    /\ pc = "parse"
    /\ idx = Len(sections)
    /\ pc' = "returned"
    /\ UNCHANGED <<sections, idx, config, out, pathVars, valueVars, treeVars>>

\* _dump(config, stream) on the tree parse_config returned
Redump ==
    /\ pc = "returned"
    /\ out' = _dump(config)
    /\ pc' = "done"
    /\ UNCHANGED <<sections, idx, config, pathVars, valueVars, treeVars>>

NextBuild == ReadSection \/ StartParse \/ ParseStep \/ ParseReturn \/ Redump

SpecBuild == InitBuild /\ [][NextBuild]_vars

----------------------------------------------------------------------------
(* A tree of the caller, written by _dump and read back by parse_config:   *)
(* the caller fills the dict that modify_config yields, _dump flattens and *)
(* encodes it, parse_config builds a tree from the sections written, and   *)
(* that tree is written again.                                             *)

TreeKeys == { <<>>, <<"a">>, <<DOT>> }
TreeScalars == { PyInt(1), PyStr(<<"1">>) }

\* the number of entries of a tree, nested ones included
RECURSIVE Size(_)
Size(t) ==
    IF t.t # "dict" \/ t.kv = <<>> THEN 0
    ELSE 1 + Size(Head(t.kv)[2]) + Size(PyDict(Tail(t.kv)))

\* the paths of the nodes of a tree, the root included
RECURSIVE NodePaths(_)
NodePaths(t) ==
    {<<>>} \cup UNION { { <<t.kv[i][1].s>> \o q : q \in NodePaths(t.kv[i][2]) } :
                            i \in { n \in 1..Len(t.kv) : t.kv[n][2].t = "dict" } }

\* the node of t at a path
RECURSIVE NodeAt(_, _)
NodeAt(t, path) ==
    IF path = <<>> THEN t ELSE NodeAt(DictGet(t.kv, PyStr(Head(path))), Tail(path))

\* t after d[k] = val on its node d at a path
RECURSIVE SetAt(_, _, _, _)
SetAt(t, path, k, val) ==
    IF path = <<>> THEN PyDict(DictSet(t.kv, PyStr(k), val))
    ELSE PyDict(DictSet(t.kv, PyStr(Head(path)),
                        SetAt(DictGet(t.kv, PyStr(Head(path))), Tail(path), k, val)))

InitTree ==
    /\ pc = "build"
    /\ tree = PyDict(<<>>)
    /\ flat = <<>>
    /\ PathIdle /\ ValueIdle /\ BuildIdle

\* the caller adds an entry, a scalar or an empty nested tree, to a node
SetEntry ==
    /\ pc = "build"
    /\ Size(tree) < MaxEntries
    /\ \E path \in NodePaths(tree), k \in TreeKeys, val \in TreeScalars \cup {PyDict(<<>>)} :
           /\ ~DictHas(NodeAt(tree, path).kv, PyStr(k))
           /\ tree' = SetAt(tree, path, k, val)
    /\ UNCHANGED <<pc, flat, pathVars, valueVars, buildVars>>

\* _dump(tree, stream): the sections written, which the parser reads back
DumpTree ==
    /\ pc = "build"
    /\ flat' = flatten_sections(tree)
    /\ sections' = _dump(tree)
    /\ idx' = 0
    /\ config' = PyDict(<<>>)
    /\ pc' = "parse"
    /\ UNCHANGED <<tree, out, pathVars, valueVars>>

NextTree == SetEntry \/ DumpTree \/ ParseStep \/ ParseReturn \/ Redump

SpecTree == InitTree /\ [][NextTree]_vars

----------------------------------------------------------------------------
(* Properties of the path codec, checked under SpecPath *)

NoQuotes(path) == \A i \in 1..Len(path) : ~Has(path[i], SQ) /\ ~Has(path[i], DQ)

\* C2: for every path p of at least one key whose keys hold no single or double quote (a key
\* may be empty and may hold '.'), split_path(join_path(p)) returns p: the
\* same keys, as many, in the same order.
C2_PathRoundTrip ==
    (Len(p) >= 1 /\ NoQuotes(p) /\ pc \in {"return_rt", "AssertionError"}) =>
        (pc = "return_rt" /\ result = p)

\* C10: split_path is total.  Inside the loop there is always a next match
\* and it starts at the current offset, so the assertion of line 26 never
\* fails; split_path returns with offset = len(path) and at least one key.
C10_SplitTotal ==
    /\ pc # "AssertionError"
    /\ pc \in {"loop", "loop_rt"} =>
           (NextMatch(name, pos).ok /\ NextMatch(name, pos).start = offset)
    /\ pc \in {"return", "return_rt"} => (offset = Len(name) /\ Len(result) >= 1)

\* the name '..a, an unbalanced quote and two consecutive dots, is split
\* into the keys ', the empty key and a
C10_Witness ==
    /\ pc = "return"
    /\ name = <<SQ, DOT, DOT, "a">>
    /\ result = << <<SQ>>, <<>>, <<"a">> >>
    /\ offset = 4

----------------------------------------------------------------------------
(* Properties of the value codec, checked under SpecValue *)

\* C3: for every scalar v that is an integer, a boolean, null or a string
\* (plain, or with a text that decodes as a number, a boolean, null or a
\* quoted literal), config_literal_dump(v) returns a text and
\* config_literal_eval of that text is v, of the same type.
C3_ScalarRoundTrip ==
    /\ pc # "raised"
    /\ pc = "done" => back = value

----------------------------------------------------------------------------
(* Properties of parse_config, checked under SpecBuild.  The sections      *)
(* 1..idx are those the loop has taken.                                    *)

\* the decoded path of section i
PathOf(i) == split_path(sections[i].name).v

IsPrefix(a, b) == Len(a) <= Len(b) /\ SubSeq(b, 1, Len(a)) = a

\* the keys section i defines, and the text it gives for key k
KeysOf(i) == { sections[i].items[n][1] : n \in 1..Len(sections[i].items) }
Raw(i, k) ==
    LET n == CHOOSE n \in 1..Len(sections[i].items) :
                 /\ sections[i].items[n][1] = k
                 /\ \A l \in (n + 1)..Len(sections[i].items) : sections[i].items[l][1] # k
    IN  sections[i].items[n][2]

\* the value a tree holds at a location (a path followed by a key)
RECURSIVE Lookup(_, _)
Lookup(node, loc) ==
    IF loc = <<>> THEN node
    ELSE IF node.t = "dict" /\ DictHas(node.kv, PyStr(Head(loc)))
    THEN Lookup(DictGet(node.kv, PyStr(Head(loc))), Tail(loc))
    ELSE Raised("KeyError")

\* section m writes at or above the location, or walks to or through it
Touches(m, loc) ==
    \/ IsPrefix(loc, PathOf(m))
    \/ \E k \in KeysOf(m) : IsPrefix(Append(PathOf(m), k), loc)

\* C4: merge precedence.  Of two sections taken in order whose names decode
\* to the same path, the later one decides every key both define and the
\* earlier one keeps the keys only it defines: as long as no section taken
\* after the deciding one has written there again, the tree holds at that
\* path and key the decoded value of the deciding section.
C4_MergePrecedence ==
    config.t # "raise" =>
        \A i \in 1..idx, j \in 1..idx :
            (i < j /\ PathOf(i) = PathOf(j)) =>
                \A k \in KeysOf(i) \cup KeysOf(j) :
                    LET last == IF k \in KeysOf(j) THEN j ELSE i
                        loc == Append(PathOf(j), k)
                    IN  (\A m \in (last + 1)..idx : ~Touches(m, loc)) =>
                            Lookup(config, loc) = config_literal_eval(Raw(last, k))

\* [a] with k = 1 and j = 1, then [a.] with k = z: the tree returned holds
\* the later k and the earlier j
C4_Witness ==
    /\ pc = "returned"
    /\ Len(sections) = 2
    /\ sections[1] = [name |-> <<"a">>,
                      items |-> << << <<"k">>, <<"1">> >>, << <<"j">>, <<"1">> >> >>]
    /\ sections[2] = [name |-> <<"a", DOT>>, items |-> << << <<"k">>, <<"z">> >> >>]
    /\ Lookup(config, << "a", "k" >>) = PyStr(<<"z">>)
    /\ Lookup(config, << "a", "j" >>) = PyInt(1)

\* section j walks to or through the entry k of the earlier section i
Collides(i, j, k) == i < j /\ IsPrefix(Append(PathOf(i), k), PathOf(j))

Unwalkable == {"int", "bool", "NoneType", "str", "list", "tuple"}

C6_ScalarOverSubtree ==
    \A i \in 1..idx, j \in 1..idx :
        \A k \in KeysOf(j) :
            (i < j /\ IsPrefix(Append(PathOf(j), k), PathOf(i))) => pc = "raised"

ScenarioTree ==
    PyDict(<< << PyStr(<<"x">>),
                 PyDict(<< << PyStr(<<"y">>),
                              PyDict(<< << PyStr(<<"z">>), PyInt(1) >>,
                                        << PyStr(<<"w">>), PyStr(<<"1">>) >> >>) >> >>) >> >>)

\* C7 as stated: the section x.y with z = 1 and w = "1" is built into
\* {x: {y: {z: 1, w: "1"}}}, and writing that tree again gives the one
\* section x.y with z = 1 and w = "1" and no other section.
C7_Scenario ==
    sections = ScenarioDoc =>
        /\ pc # "raised"
        /\ pc \in {"returned", "done"} => config = ScenarioTree
        /\ pc = "done" => out = ScenarioDoc

\* C7 amended: the section x.y with z = 1 and w = "1" is built into
\* {x: {y: {z: 1, w: "1"}}} (z an int, w a str), and writing that tree again
\* gives two sections: the empty section x of the parent node, then x.y
\* with z = 1 and w = "1", the 1 of w still quoted.
C7_ScenarioAmended ==
    sections = ScenarioDoc =>
        /\ pc # "raised"
        /\ pc \in {"returned", "done"} => config = ScenarioTree
        /\ pc = "done" => out = << [name |-> <<"x">>, items |-> <<>>] >> \o ScenarioDoc

C7_Witness ==
    /\ pc = "done"
    /\ sections = ScenarioDoc
    /\ Len(out) = 2
    /\ out[2] = ScenarioDoc[1]

----------------------------------------------------------------------------
(* Properties of a tree written and read back, checked under SpecTree.     *)
(* The keys of TreeKeys hold no quote character.                           *)

\* C1: document round trip.  For every tree t whose keys hold no quote
\* character, scalars at the root and empty nested dicts included,
\* parse_config on the sections _dump writes for t returns a tree equal
\* to t.
C1_DocumentRoundTrip ==
    /\ pc # "raised"
    /\ pc \in {"returned", "done"} => PyEq(config, tree)

\* the names of the nodes of t, the root included, are pairwise distinct
DistinctNames(t) ==
    \A x \in NodePaths(t), y \in NodePaths(t) : x # y => join_path(x) # join_path(y)

\* C8: idempotent flatten.  For every tree t whose distinct nodes have
\* distinct names, with S the sections _dump writes for t, the sections
\* _dump writes for parse_config(S) are S again: the same names in the
\* same order with the same entries.
C8_IdempotentFlatten ==
    DistinctNames(tree) =>
        /\ pc # "raised"
        /\ pc = "done" => out = sections

\* the paths of the nodes under the node d at `path`, itself first, then
\* the subtree of each nested dict in iteration order
RECURSIVE PreOrder(_, _)
PreOrder(d, path) ==
    <<path>> \o Flatten([i \in 1..Len(d.kv) |->
                            IF d.kv[i][2].t = "dict"
                            THEN PreOrder(d.kv[i][2], Append(path, d.kv[i][1].s))
                            ELSE <<>>])

\* the direct scalar entries of a node
ScalarsOf(d) == PyDict(SelectSeq(d.kv, LAMBDA e : e[2].t # "dict"))

\* one section per node other than the root, parents first
ExpectedFlat(t) ==
    LET below == Tail(PreOrder(t, <<>>))
    IN  [i \in 1..Len(below) |->
            <<PyStr(join_path(below[i])), ScalarsOf(NodeAt(t, below[i]))>>]

\* C9: flatten content.  For every tree t, flatten_sections(t) holds
\* exactly one section per node other than the root, named join_path of
\* the node's path and holding the node's direct scalar entries (an empty
\* section for a node without any), none for the root, each parent before
\* its descendants and siblings in iteration order.
C9_FlattenContent ==
    pc # "build" => flat = ExpectedFlat(tree)

====
